---- MODULE Spec2Model ----
(***************************************************************************)
(* A model of process.py: the daily batch job that downloads USNIC sea-ice *)
(* shapefiles for a date range, writes one GeoJSON file per date and       *)
(* appends one catalog row per written date to a parquet catalog.          *)
(*                                                                         *)
(* One run of main() is a sequence of steps (pc); several runs follow one  *)
(* another on the same disk (catalog file, output directory).  The remote  *)
(* archive, the shapefile reader, the disk and the geometry library are    *)
(* the environment: every call of main() that can raise has an outcome     *)
(* chosen by the environment.                                              *)
(***************************************************************************)
EXTENDS Integers, Sequences, FiniteSets, TLC

\* Number of calendar days the date range is drawn from, and number of runs.
MaxDay == 2
MaxRuns == 2

Days == 1..MaxDay

(***************************************************************************)
(* Calendar.  A date is a day ordinal; day 1 is Epoch.  d + 1 is           *)
(* d += timedelta(days=1); Ymd(d) is the (year, month, day) strftime reads.*)
(***************************************************************************)
Epoch == <<2025, 9, 30>>

IsLeap(y) == (y % 4 = 0 /\ y % 100 # 0) \/ y % 400 = 0

DaysInMonth(y, m) ==
  IF m = 2 THEN (IF IsLeap(y) THEN 29 ELSE 28)
  ELSE IF m \in {4, 6, 9, 11} THEN 30 ELSE 31

NextDay(t) ==
  IF t[3] < DaysInMonth(t[1], t[2]) THEN <<t[1], t[2], t[3] + 1>>
  ELSE IF t[2] < 12 THEN <<t[1], t[2] + 1, 1>>
  ELSE <<t[1] + 1, 1, 1>>

RECURSIVE Ymd(_)
Ymd(k) == IF k <= 1 THEN Epoch ELSE NextDay(Ymd(k - 1))

\* f"USNIC_{d.strftime('%Y%m%d')}"
item_id(k) == <<"USNIC", Ymd(k)[1] * 10000 + Ymd(k)[2] * 100 + Ymd(k)[3]>>

ASSET_BASE_URL_GEOJSON == "http://127.0.0.1:9091/geojsons"

\* f"{ASSET_BASE_URL_GEOJSON}/{item_id}.geojson"
href_of(id) == <<ASSET_BASE_URL_GEOJSON, "/", id, ".geojson">>

\* OUTPUT_DIR / f"{item_id}.geojson"
out_geojson(id) == <<id, ".geojson">>

Ids == {item_id(k) : k \in Days}

(***************************************************************************)
(* Geometries.  A geometry is None ("null") or one of four kinds:          *)
(*   "valid"     a valid, non-empty geometry                               *)
(*   "empty"     an empty geometry (valid by definition)                   *)
(*   "bowtie"    a self-intersecting polygon: invalid, repaired by both    *)
(*               make_valid and buffer(0)                                  *)
(*   "collapsed" an invalid zero-area polygon: make_valid turns it into a  *)
(*               valid lower-dimensional geometry, buffer(0) into an empty *)
(*               polygon                                                   *)
(***************************************************************************)
is_valid(g) == g \in {"valid", "empty"}
is_empty(g) == g = "empty"
notna(g) == g # "null"
buffer0(g) == IF g = "collapsed" THEN "empty" ELSE IF g = "bowtie" THEN "valid" ELSE g

(***************************************************************************)
(* _make_valid is bound when the module is imported: to                    *)
(* shapely.validation.make_valid ("validation"), else to                   *)
(* shapely.make_valid ("toplevel"), else to None ("none").                 *)
(* shapely.validation.make_valid(ob) starts with `if ob.is_valid`, so it   *)
(* raises AttributeError on None; shapely.make_valid maps None to None.    *)
(***************************************************************************)
MakeValidBindings == {"validation", "toplevel", "none"}

make_valid_raises(binding, g) == binding = "validation" /\ g = "null"
make_valid(g) == IF g \in {"bowtie", "collapsed"} THEN "valid" ELSE g

\* A dataset (GeoDataFrame) is a CRS tag ("none" when unknown) and its geometry column.

MapSeq(s, F(_)) == [i \in 1..Len(s) |-> F(s[i])]

\* gdf_ll[~gdf_ll.geometry.is_empty & gdf_ll.geometry.notna()]
KeepGeom(g) == ~is_empty(g) /\ notna(g)

RECURSIVE DropEmpties(_)
DropEmpties(s) ==
  IF s = <<>> THEN <<>>
  ELSE (IF KeepGeom(Head(s)) THEN <<Head(s)>> ELSE <<>>) \o DropEmpties(Tail(s))

\* to_geojson_ll(gdf_src): "raise", or the normalized dataset.
to_geojson_ll(binding, gdf) ==
  LET src == IF gdf.crs = "none" THEN [gdf EXCEPT !.crs = "EPSG:3031"] ELSE gdf
      ll == [src EXCEPT !.crs = "EPSG:4326"]
      raises == binding # "none"
                /\ \E i \in 1..Len(ll.geoms) : make_valid_raises(binding, ll.geoms[i])
      repaired == IF binding # "none" THEN MapSeq(ll.geoms, make_valid) ELSE ll.geoms
      buffered == MapSeq(repaired,
                         LAMBDA g : IF g = "null" \/ is_valid(g) THEN g ELSE buffer0(g))
  IN IF raises THEN [crs |-> "raise", geoms |-> <<>>]
     ELSE [ll EXCEPT !.geoms = DropEmpties(buffered)]

\* gdf.empty
gdf_empty(gdf) == Len(gdf.geoms) = 0
\* gdf.geometry.isna().all()
all_na(gdf) == \A i \in 1..Len(gdf.geoms) : gdf.geoms[i] = "null"

(***************************************************************************)
(* The catalog: a table with a column order and rows; a row maps each      *)
(* column to a value.  NA is pandas' pd.NA.                                *)
(***************************************************************************)
Canonical == <<"id", "datetime", "href", "geometry">>
NA == <<"NA">>

ColSet(cols) == {cols[i] : i \in 1..Len(cols)}

\* bbox_envelope(gdf_ll): the box of the total bounds.
bbox_envelope(gdf) == <<"box", gdf.crs>>

\* The dict appended to new_rows for date k.
NewRow(k, gdf) ==
  [id |-> item_id(k),
   datetime |-> <<"Timestamp", Ymd(k)>>,
   href |-> href_of(item_id(k)),
   geometry |-> bbox_envelope(gdf)]

\* The files the parquet path can hold.
AbsentFile == [state |-> "absent", cols |-> <<>>, rows |-> <<>>]
CorruptFile == [state |-> "corrupt", cols |-> <<>>, rows |-> <<>>]
TableFile(df) == [state |-> "table", cols |-> df.cols, rows |-> df.rows]

\* load_existing_parquet(path), for a readable or absent file.
load_existing_parquet(file) ==
  IF file.state = "table" THEN [cols |-> file.cols, rows |-> file.rows]
  ELSE [cols |-> Canonical, rows |-> <<>>]

\* existing.empty
df_empty(df) == Len(df.rows) = 0 \/ Len(df.cols) = 0

\* set(existing["id"].astype(str)) if not existing.empty else set()
ids_of_never(df) == {}
ids_of(df) == IF df_empty(df) THEN {} ELSE {df.rows[i]["id"] : i \in 1..Len(df.rows)}

\* The catalog written when new_rows is not empty.
Merge_newfirst(ex, rows) ==
  IF df_empty(ex) THEN [cols |-> Canonical, rows |-> rows]
  ELSE [cols |-> ex.cols,
        rows |-> [i \in 1..Len(rows) |->
                    [c \in ColSet(ex.cols) |->
                       IF c \in DOMAIN rows[i] THEN rows[i][c] ELSE NA]] \o ex.rows]
Merge_replace(ex, rows) == [cols |-> Canonical, rows |-> rows]
Merge(ex, rows) ==
  IF df_empty(ex) THEN [cols |-> Canonical, rows |-> rows]
  ELSE [cols |-> ex.cols,
        rows |-> ex.rows \o
                 [i \in 1..Len(rows) |->
                    [c \in ColSet(ex.cols) |->
                       IF c \in DOMAIN rows[i] THEN rows[i][c] ELSE NA]]]

(***************************************************************************)
(* The environment's answers.                                              *)
(***************************************************************************)
\* What the archive serves for a date and what the shapefile reader makes of it.
Dataset(crs, geoms) == [kind |-> "shp", crs |-> crs, geoms |-> geoms]
Responses ==
  { [kind |-> k, crs |-> "none", geoms |-> <<>>] : k \in {"http_error", "no_shp", "bad_shp"} }
  \cup { Dataset("EPSG:4326", <<>>),
         Dataset("EPSG:4326", <<"null">>),
         Dataset("none", <<"valid">>),
         Dataset("EPSG:3031", <<"empty">>),
         Dataset("EPSG:3031", <<"bowtie", "null">>),
         Dataset("none", <<"collapsed">>) }

NoResponse == [kind |-> "none", crs |-> "none", geoms |-> <<>>]
NoGdf == [crs |-> "none", geoms |-> <<>>]

\* Catalog files found on disk before the first run.
LegacyCols == <<"id", "style", "href", "datetime", "geometry">>
LegacyRow(k) ==
  [id |-> item_id(k), style |-> "legacy", datetime |-> <<"Timestamp", Ymd(k)>>,
   href |-> href_of(item_id(k)), geometry |-> <<"box", "EPSG:4326">>]
StartCatalogs ==
  { AbsentFile,
    TableFile([cols |-> LegacyCols, rows |-> <<LegacyRow(1)>>]),
    TableFile([cols |-> LegacyCols, rows |-> <<>>]) }

ErrorStates == {"ERROR_READ", "ERROR_NORMALIZE", "ERROR_WRITE", "ERROR_ENVELOPE"}

VARIABLES
  mv,            \* the binding of _make_valid
  catalog,       \* the file at PARQUET_PATH
  files,         \* OUTPUT_DIR: each <id>.geojson is "absent", "partial" or "complete"
  pc,            \* where main() is
  START_DATE, END_DATE,
  existing, existing_ids, new_rows, d, shp, gdf_src, gdf_ll,
  st,            \* per date: the state it reached in this run
  wroteRun,      \* ids whose GeoJSON to_file completed in this run
  wrotePast,     \* ids whose GeoJSON to_file completed in an earlier run
  catWrites,     \* to_parquet calls of this run
  saved,         \* to_parquet returned in this run
  copied,        \* shutil.copy returned in this run
  abortAt,       \* the step whose exception ended the run, or "none"
  runs,          \* runs started
  prev,          \* the previous run: its range, st and whether it saved
  archive        \* per date: what the archive serves, where it is held fixed

vars ==
  <<mv, catalog, files, pc, START_DATE, END_DATE, existing, existing_ids,
    new_rows, d, shp, gdf_src, gdf_ll, st, wroteRun, wrotePast, catWrites,
    saved, copied, abortAt, runs, prev, archive>>

disk == <<catalog, files>>
config == <<mv, START_DATE, END_DATE, runs, prev, wrotePast, archive>>
locals == <<existing, existing_ids, new_rows, shp, gdf_src, gdf_ll>>

NoPrev ==
  [ran |-> FALSE, start |-> 1, end |-> 0, st |-> [k \in Days |-> "PENDING"],
   ended |-> "none", saved |-> FALSE]

InitBase ==
  /\ mv \in MakeValidBindings
  /\ catalog \in StartCatalogs
  /\ files = [f \in {out_geojson(i) : i \in Ids} |-> "absent"]
  /\ pc = "idle"
  /\ existing = [cols |-> Canonical, rows |-> <<>>]
  /\ existing_ids = {}
  /\ new_rows = <<>>
  /\ d = 1
  /\ shp = NoResponse
  /\ gdf_src = NoGdf
  /\ gdf_ll = NoGdf
  /\ st = [k \in Days |-> "PENDING"]
  /\ wroteRun = {}
  /\ wrotePast = {}
  /\ catWrites = 0
  /\ saved = FALSE
  /\ copied = FALSE
  /\ abortAt = "none"
  /\ runs = 0
  /\ prev = NoPrev

\* No process has run yet; the archive is free to answer each request as it likes.
Init ==
  /\ InitBase
  /\ START_DATE = 1 /\ END_DATE = 0
  /\ archive = [k \in Days |-> NoResponse]

\* A new process: the configuration is read and main() is entered.
Begin(s, e) ==
  /\ pc \in {"idle", "done", "aborted"}
  /\ runs < MaxRuns
  /\ runs' = runs + 1
  /\ START_DATE' = s /\ END_DATE' = e
  /\ wrotePast' = wrotePast \cup wroteRun
  /\ wroteRun' = {}
  /\ st' = [k \in Days |-> "PENDING"]
  /\ catWrites' = 0 /\ saved' = FALSE /\ copied' = FALSE /\ abortAt' = "none"
  /\ existing' = [cols |-> Canonical, rows |-> <<>>]
  /\ existing_ids' = {} /\ new_rows' = <<>> /\ d' = s
  /\ shp' = NoResponse /\ gdf_src' = NoGdf /\ gdf_ll' = NoGdf
  /\ pc' = "load"
  /\ UNCHANGED <<mv, disk, archive>>

StartRun(s, e) == Begin(s, e) /\ prev' = prev

\* existing = load_existing_parquet(...); existing_ids = ...; new_rows = []
Load ==
  /\ pc = "load"
  /\ IF catalog.state = "corrupt"
     THEN /\ pc' = "aborted" /\ abortAt' = "load"
          /\ UNCHANGED <<existing, existing_ids>>
     ELSE /\ existing' = load_existing_parquet(catalog)
          /\ existing_ids' = ids_of(load_existing_parquet(catalog))
          /\ pc' = "loop" /\ abortAt' = abortAt
  /\ new_rows' = <<>>
  /\ d' = START_DATE
  /\ UNCHANGED <<disk, config, shp, gdf_src, gdf_ll, st, wroteRun, catWrites, saved,
                 copied>>

\* The date ends in state s and the loop moves to the next date.  The loop body's
\* temporaries (zbytes/shp_path, gdf_src, gdf_ll) are assigned again before they are
\* read again, so the model forgets them here.
EndDate(s) ==
  /\ st' = [st EXCEPT ![d] = s]
  /\ d' = d + 1
  /\ pc' = "loop"
  /\ shp' = NoResponse /\ gdf_src' = NoGdf /\ gdf_ll' = NoGdf

\* except Exception as e: print(...); continue   (download and extraction)
ExceptFetch(s) == EndDate(s)

\* except Exception as e: print(...); continue   (reading, repair, writing, envelope)
ExceptProcess_propagates(s) ==
  /\ st' = [st EXCEPT ![d] = s]
  /\ d' = d
  /\ pc' = "aborted"
  /\ shp' = NoResponse /\ gdf_src' = NoGdf /\ gdf_ll' = NoGdf
ExceptProcess(s) == EndDate(s)

\* if item_id in existing_ids: continue
Skip ==
  /\ pc = "loop" /\ d <= END_DATE
  /\ item_id(d) \in existing_ids
  /\ EndDate("SKIPPED")
  /\ UNCHANGED <<disk, config, existing, existing_ids, new_rows, wroteRun, catWrites,
                 saved, copied, abortAt>>

\* The first try block: download_zip_bytes and extract_first_shp.
Fetch(resp) ==
  /\ pc = "loop" /\ d <= END_DATE
  /\ item_id(d) \notin existing_ids
  /\ IF resp.kind \in {"http_error", "no_shp"}
     THEN ExceptFetch("FETCH_FAILED")
     ELSE shp' = resp /\ pc' = "read" /\ UNCHANGED <<st, d, gdf_src, gdf_ll>>
  /\ UNCHANGED <<disk, config, existing, existing_ids, new_rows, wroteRun, catWrites,
                 saved, copied, abortAt>>

\* gdf_src = gpd.read_file(shp_path); the EMPTY_SOURCE test.
ReadFile ==
  /\ pc = "read"
  /\ IF shp.kind = "bad_shp"
     THEN ExceptProcess("ERROR_READ")
     ELSE LET gdf == [crs |-> shp.crs, geoms |-> shp.geoms] IN
            IF gdf_empty(gdf) \/ all_na(gdf)
            THEN EndDate("EMPTY_SOURCE")
            ELSE gdf_src' = gdf /\ pc' = "norm" /\ UNCHANGED <<st, d, shp, gdf_ll>>
  /\ UNCHANGED <<disk, config, existing, existing_ids, new_rows, wroteRun, catWrites,
                 saved, copied, abortAt>>

\* gdf_ll = to_geojson_ll(gdf_src); the NORMALIZE_EMPTY test.
Normalize ==
  /\ pc = "norm"
  /\ LET r == to_geojson_ll(mv, gdf_src) IN
       IF r.crs = "raise"
       THEN ExceptProcess("ERROR_NORMALIZE")
       ELSE IF gdf_empty(r)
            THEN EndDate("NORMALIZE_EMPTY")
            ELSE gdf_ll' = r /\ pc' = "write" /\ UNCHANGED <<st, d, shp, gdf_src>>
  /\ UNCHANGED <<disk, config, existing, existing_ids, new_rows, wroteRun, catWrites,
                 saved, copied, abortAt>>

\* gdf_ll.to_file(out_geojson, driver="GeoJSON"): it returns, or raises before
\* touching the file, or raises with the file partly written.
WriteGeoJSON_swallow ==
  /\ pc = "write"
  /\ \/ /\ files' = [files EXCEPT ![out_geojson(item_id(d))] = "complete"]
        /\ wroteRun' = wroteRun \cup {item_id(d)}
     \/ /\ files' = [files EXCEPT ![out_geojson(item_id(d))] = "partial"]
        /\ wroteRun' = wroteRun
  /\ pc' = "stage"
  /\ UNCHANGED <<st, d, catalog, config, locals, catWrites, saved, copied, abortAt>>
WriteGeoJSON ==
  /\ pc = "write"
  /\ \/ /\ files' = [files EXCEPT ![out_geojson(item_id(d))] = "complete"]
        /\ wroteRun' = wroteRun \cup {item_id(d)}
        /\ pc' = "stage" /\ UNCHANGED <<st, d, shp, gdf_src, gdf_ll>>
     \/ /\ files' = files
        /\ wroteRun' = wroteRun
        /\ ExceptProcess("ERROR_WRITE")
     \/ /\ files' = [files EXCEPT ![out_geojson(item_id(d))] = "partial"]
        /\ wroteRun' = wroteRun
        /\ ExceptProcess("ERROR_WRITE")
  /\ UNCHANGED <<catalog, config, existing, existing_ids, new_rows, catWrites,
                 saved, copied, abortAt>>

\* geom_env = bbox_envelope(gdf_ll); new_rows.append({...})
StageRow ==
  /\ pc = "stage"
  /\ \/ /\ new_rows' = Append(new_rows, NewRow(d, gdf_ll))
        /\ EndDate("WRITTEN")
     \/ /\ new_rows' = new_rows
        /\ ExceptProcess("ERROR_ENVELOPE")
  /\ UNCHANGED <<disk, config, existing, existing_ids, wroteRun, catWrites, saved, copied,
                 abortAt>>

\* After the loop: "Save parquet if anything new".  to_parquet returns, or raises
\* leaving the old file, or raises leaving an unreadable file.
Save_always ==
  /\ pc = "loop" /\ d > END_DATE
  /\ catWrites' = catWrites + 1
  /\ catalog' = TableFile(Merge(existing, new_rows))
  /\ saved' = TRUE /\ pc' = "copy" /\ abortAt' = abortAt
  /\ UNCHANGED <<files, config, locals, d, st, wroteRun, copied>>
Save ==
  /\ pc = "loop" /\ d > END_DATE
  /\ IF new_rows = <<>>
     THEN pc' = "copy" /\ UNCHANGED <<catalog, catWrites, saved, abortAt>>
     ELSE /\ catWrites' = catWrites + 1
          /\ \/ /\ catalog' = TableFile(Merge(existing, new_rows))
                /\ saved' = TRUE /\ pc' = "copy" /\ abortAt' = abortAt
             \/ /\ catalog' = catalog
                /\ saved' = FALSE /\ pc' = "aborted" /\ abortAt' = "save"
             \/ /\ catalog' = CorruptFile
                /\ saved' = FALSE /\ pc' = "aborted" /\ abortAt' = "save"
  /\ UNCHANGED <<files, config, locals, d, st, wroteRun, copied>>

\* if Path(PARQUET_PATH).exists(): shutil.copy(PARQUET_PATH, OUTPUT_DIR)
Copy ==
  /\ pc = "copy"
  /\ IF catalog.state = "absent"
     THEN pc' = "done" /\ UNCHANGED <<copied, abortAt>>
     ELSE \/ copied' = TRUE /\ pc' = "done" /\ abortAt' = abortAt
          \/ copied' = FALSE /\ pc' = "aborted" /\ abortAt' = "copy"
  /\ UNCHANGED <<catalog, files, config, locals, d, st, wroteRun, catWrites, saved>>

Next ==
  \/ \E s \in Days, e \in Days : StartRun(s, e)
  \/ Load
  \/ Skip
  \/ \E resp \in Responses : Fetch(resp)
  \/ ReadFile
  \/ Normalize
  \/ WriteGeoJSON
  \/ StageRow
  \/ Save
  \/ Copy

Spec == Init /\ [][Next]_vars

(***************************************************************************)
(* Repeated runs with an unchanged date range against an archive that      *)
(* serves the same thing for a date every time it is asked.  Only the      *)
(* dates of the range are ever asked for, so the archive is left           *)
(* undetermined (NoResponse) at the others.                                *)
(***************************************************************************)
InitIdem ==
  /\ InitBase
  /\ START_DATE \in Days /\ END_DATE \in Days
  /\ archive \in [Days -> Responses \cup {NoResponse}]
  /\ \A k \in Days : archive[k] = NoResponse <=> ~(START_DATE <= k /\ k <= END_DATE)

\* The same configuration is run again, once: the orchestrator runs twice in a row.
Rerun ==
  /\ runs < 2
  /\ Begin(START_DATE, END_DATE)
  /\ prev' = IF pc = "idle" THEN NoPrev
             ELSE [ran |-> TRUE, start |-> START_DATE, end |-> END_DATE, st |-> st,
                   ended |-> abortAt, saved |-> saved]

NextIdem ==
  \/ Rerun
  \/ Load
  \/ Skip
  \/ Fetch(archive[d])
  \/ ReadFile
  \/ Normalize
  \/ WriteGeoJSON
  \/ StageRow
  \/ Save
  \/ Copy

SpecIdem == InitIdem /\ [][NextIdem]_vars

(***************************************************************************)
(* Properties.                                                             *)
(***************************************************************************)
Range == {k \in Days : START_DATE <= k /\ k <= END_DATE}

\* The loop is over: every date of the range has been visited.
LoopOver == pc \in {"copy", "done"} \/ (pc = "aborted" /\ abortAt \in {"save", "copy"})

NoDupIds(rows) == \A i, j \in 1..Len(rows) : rows[i]["id"] = rows[j]["id"] => i = j

HasRowFor(rows, k) == \E j \in 1..Len(rows) : rows[j]["id"] = item_id(k)

\* The previous run left date k in the catalog.
CatalogedByPrev(k) ==
  prev.st[k] = "SKIPPED" \/ (prev.st[k] = "WRITTEN" /\ prev.saved)

\* C1 as stated: when the orchestrator has run to its end twice in a row with the
\* same date range and the same archive behaviour, the second run reports every date
\* of the range as skipped, writes no GeoJSON file and leaves no duplicate ids.
C1_SecondRunSkipsEveryDate ==
  (prev.ran /\ prev.ended = "none" /\ pc = "done") =>
    /\ \A k \in Range : st[k] = "SKIPPED"
    /\ wroteRun = {}
    /\ catalog.state = "table" => NoDupIds(catalog.rows)

\* C1 amended: in a run that follows a run with the same date range and the same
\* archive behaviour, every date the earlier run left in the catalog (already present,
\* or written and saved) is skipped: no GeoJSON file is written and no row is staged
\* for it, and it is reported skipped once the loop is over; the catalog never holds
\* a duplicate id.
C1_SecondRunSkipsCataloged ==
  /\ prev.ran =>
       \A k \in Range :
         CatalogedByPrev(k) =>
           /\ st[k] \in {"PENDING", "SKIPPED"}
           /\ item_id(k) \notin wroteRun
           /\ ~HasRowFor(new_rows, k)
           /\ LoopOver => st[k] = "SKIPPED"
  /\ catalog.state = "table" => NoDupIds(catalog.rows)

C1_Witness ==
  /\ prev.ran /\ pc = "done"
  /\ \E k \in Range : prev.st[k] = "WRITTEN" /\ prev.saved /\ st[k] = "SKIPPED"
  /\ \E k \in Range : prev.st[k] = "FETCH_FAILED" /\ st[k] = "FETCH_FAILED"

\* C2: a date has its GeoJSON file written in this run and a row staged if and only
\* if it ends WRITTEN; a date that ends in any other state leaves no GeoJSON file
\* (whole or partial) written by this run and no staged row.
C2_OnlyWrittenLeavesArtifacts ==
  \A k \in Days :
    /\ st[k] = "WRITTEN" =>
         /\ item_id(k) \in wroteRun
         /\ files[out_geojson(item_id(k))] = "complete"
         /\ HasRowFor(new_rows, k)
    /\ (st[k] \notin {"PENDING", "WRITTEN"}) =>
         /\ item_id(k) \notin wroteRun
         /\ files[out_geojson(item_id(k))] # "partial"
         /\ ~HasRowFor(new_rows, k)

IsPrefix(a, b) == Len(a) <= Len(b) /\ \A i \in 1..Len(a) : a[i] = b[i]

\* C3: the persisted catalog has pairwise distinct ids, and every step keeps the
\* records already persisted: unchanged and at the same positions (rows are only
\* appended; a readable catalog never becomes absent).
C3_AppendOnly ==
  /\ [](catalog.state = "table" => NoDupIds(catalog.rows))
  /\ [][/\ catalog.state = "table" => catalog'.state \in {"table", "corrupt"}
        /\ (catalog.state = "table" /\ catalog'.state = "table") =>
              IsPrefix(catalog.rows, catalog'.rows)]_vars

C3_Witness ==
  /\ runs >= 2 /\ saved /\ catalog.state = "table"
  /\ catalog.cols = Canonical
  /\ Len(existing.rows) >= 1 /\ Len(catalog.rows) > Len(existing.rows)

\* The loop's next step: the next date is skipped or fetched, or the loop is left
\* for the final catalog step.
LoopStep == Skip \/ (\E resp \in Responses : Fetch(resp)) \/ Save

\* C4: no per-date failure ends the run: a run is aborted only by the catalog steps
\* (load, save, copy); a date that failed has been left behind by the loop, which is
\* back at its head and can take its next step (the next date, or the final catalog
\* step); and once the loop is over every date of the range has reached a terminal
\* state.
C4_NoDateErrorAborts ==
  /\ pc = "aborted" => abortAt \in {"load", "save", "copy"}
  /\ \A k \in Days : st[k] \in ErrorStates \cup {"FETCH_FAILED"} => k < d
  /\ (pc = "loop" /\ d > START_DATE /\ st[d - 1] \in ErrorStates \cup {"FETCH_FAILED"})
       => ENABLED LoopStep
  /\ LoopOver => \A k \in Range : st[k] # "PENDING"

C4_Witness ==
  /\ pc = "done"
  /\ \E k, l \in Range : k < l /\ st[k] \in ErrorStates /\ st[l] = "WRITTEN"

\* C5: in one run to_parquet is called at most once, only after every date of the
\* range has reached a terminal state, and, once the loop is over, exactly when some
\* date reached WRITTEN.
C5_CatalogWrittenOnce ==
  /\ catWrites <= 1
  /\ catWrites = 1 => d > END_DATE /\ \A k \in Range : st[k] # "PENDING"
  /\ LoopOver => (catWrites = 1 <=> \E k \in Range : st[k] = "WRITTEN")
  /\ ~LoopOver => catWrites = 0

C5_Witness ==
  /\ pc = "done" /\ catWrites = 1
  /\ \E k \in Range : st[k] = "FETCH_FAILED"

C7_NeverRewritten == wroteRun \cap wrotePast = {}

\* C8: once the catalog has been saved the run ends normally, with the saved catalog
\* in place, whatever the copy into the output directory does.
C8_CopyFailureNotFatal ==
  (saved /\ pc \in {"done", "aborted"}) => (pc = "done" /\ catalog.state = "table")

\* C9: to_geojson_ll never raises, and every geometry of its result is valid and
\* non-empty, in EPSG:4326.
C9_NormalizeTotal ==
  /\ \A k \in Days : st[k] # "ERROR_NORMALIZE"
  /\ pc \in {"write", "stage"} =>
       /\ gdf_ll.crs = "EPSG:4326"
       /\ \A i \in 1..Len(gdf_ll.geoms) :
            notna(gdf_ll.geoms[i]) /\ is_valid(gdf_ll.geoms[i]) /\ ~is_empty(gdf_ll.geoms[i])

\* C10: every staged record, and every record a run adds to the persisted catalog,
\* has the id of a date of the run's range and an href ending in <id>.geojson, and its
\* GeoJSON file was completely written earlier in the same run.
C10_RecordsReferenceWrittenFiles ==
  LET Good(r) ==
        /\ \E k \in Range : r["id"] = item_id(k)
        /\ r["href"][3] = r["id"] /\ r["href"][4] = ".geojson"
        /\ r["id"] \in wroteRun
        /\ files[out_geojson(r["id"])] = "complete"
  IN /\ \A j \in 1..Len(new_rows) : Good(new_rows[j])
     /\ saved =>
          /\ Len(catalog.rows) = Len(existing.rows) + Len(new_rows)
          /\ \A j \in 1..Len(new_rows) : Good(catalog.rows[Len(existing.rows) + j])

C10_Witness == saved /\ pc = "done" /\ Len(new_rows) = Cardinality(Range) /\ Len(new_rows) >= 2

====
